---------------------------- MODULE Spec2Model ----------------------------
(***************************************************************************)
(* Model of src/webinarjam_auto_register.py: one FastAPI worker process    *)
(* that reads its configuration at import time and serves POST /register   *)
(* through the coroutine register_contact.                                 *)
(*                                                                         *)
(* The worker runs every handler on one event-loop thread.  The handler is *)
(* an `async def` that never awaits: requests.post and time.sleep are      *)
(* ordinary blocking calls, so the thread is held from the moment the      *)
(* handler is entered until it returns or raises.  `running` names the     *)
(* request that holds the thread (0: the loop is idle).                    *)
(*                                                                         *)
(* Strings the code inspects character by character (the contact's name,   *)
(* its email) are sequences of one-character strings.  A JSON value is a   *)
(* tagged record; an object carries a function whose DOMAIN is the set of  *)
(* keys present, so dict.get is a lookup with a default.                   *)
(***************************************************************************)
EXTENDS Integers, Sequences, FiniteSets, TLC

VARIABLES
    env,        \* the process environment seen by os.getenv (lines 12-14)
    proc,       \* "loading" | "crashed" | "serving"
    config,     \* the module globals WEBINARJAM_API_KEY, WEBINAR_ID, WEBINAR_SCHEDULE_ID
    running,    \* the request whose handler holds the event-loop thread, or 0
    pc,         \* per request: where it is
    body,       \* per request: the JSON body the client sent
    payload,    \* per request: the handler's local `payload`
    posts,      \* per request: number of outbound POSTs issued
    reply,      \* per request: what requests.post returned or raised
    delay,      \* per request: seconds spent in time.sleep
    stdout,     \* per request: the texts its handler printed
    trace,      \* per request: the handler's steps, in order
    outcomes    \* per request: what was delivered to the caller, in order

vars == <<env, proc, config, running, pc, body, payload, posts, reply, delay,
          stdout, trace, outcomes>>

-----------------------------------------------------------------------------
(* Bounds *)

MaxReqs == 2

MaxNameLen == 6

Reqs == 1..MaxReqs

-----------------------------------------------------------------------------
(* Program constants *)

DelaySeconds == 2

EnvNames == {"WEBINARJAM_API_KEY", "WEBINARJAM_WEBINAR_ID", "WEBINARJAM_WEBINAR_SCHEDULE_ID"}

\* os.getenv gives None for an unset variable; a variable may also be set to "".
Unset == "<None>"

EnvValues == {Unset, "", "v1"}

-----------------------------------------------------------------------------
(* Strings *)

Whitespace == {" ", "\t"}

Chars == {"a", "b"} \cup Whitespace

RECURSIVE SeqsUpTo(_, _)
SeqsUpTo(S, n) ==
    IF n = 0 THEN {<<>>}
    ELSE LET shorter == SeqsUpTo(S, n - 1)
         IN  shorter \cup {Append(s, c) : s \in {t \in shorter : Len(t) = n - 1}, c \in S}

\* str.split() with no separator: tokens are the maximal runs of
\* non-whitespace characters; empty strings are never produced.
RECURSIVE SplitScan(_, _, _, _)
SplitScan(s, i, cur, acc) ==
    LET flushed == IF cur = <<>> THEN acc ELSE Append(acc, cur)
    IN  IF i > Len(s) THEN flushed
        ELSE IF s[i] \in Whitespace THEN SplitScan(s, i + 1, <<>>, flushed)
        ELSE SplitScan(s, i + 1, Append(cur, s[i]), acc)

\* str.split(" "): every single space separates, empty tokens are kept and
\* other whitespace is not a separator.
RECURSIVE SplitOnSpaceScan(_, _, _, _)
SplitOnSpaceScan(s, i, cur, acc) ==
    IF i > Len(s) THEN Append(acc, cur)
    ELSE IF s[i] = " " THEN SplitOnSpaceScan(s, i + 1, <<>>, Append(acc, cur))
    ELSE SplitOnSpaceScan(s, i + 1, Append(cur, s[i]), acc)

SplitOnSingleSpace(s) == SplitOnSpaceScan(s, 1, <<>>, <<>>)

Split(s) == SplitScan(s, 1, <<>>, <<>>)

\* " ".join(parts)
RECURSIVE JoinSpace(_)
JoinSpace(parts) ==
    IF parts = <<>> THEN <<>>
    ELSE IF Len(parts) = 1 THEN parts[1]
    ELSE parts[1] \o <<" ">> \o JoinSpace(Tail(parts))

-----------------------------------------------------------------------------
(* Startup: lines 12-19 *)

ReadEnv == [api_key  |-> env["WEBINARJAM_API_KEY"],
            webinar_id |-> env["WEBINARJAM_WEBINAR_ID"],
            schedule |-> env["WEBINARJAM_WEBINAR_SCHEDULE_ID"]]

Truthy(v) == v # Unset /\ v # ""

\* any([...]) in place of all([...])
ConfigSomePresent(c) == Truthy(c.api_key) \/ Truthy(c.webinar_id) \/ Truthy(c.schedule)

\* all([WEBINARJAM_API_KEY, WEBINAR_ID, WEBINAR_SCHEDULE_ID])
ConfigComplete(c) == Truthy(c.api_key) /\ Truthy(c.webinar_id) /\ Truthy(c.schedule)

NoConfig == [api_key |-> Unset, webinar_id |-> Unset, schedule |-> Unset]

Startup ==
    /\ proc = "loading"
    /\ config' = ReadEnv
    /\ proc' = IF ConfigComplete(ReadEnv) THEN "serving" ELSE "crashed"
    /\ UNCHANGED <<env, running, pc, body, payload, posts, reply, delay,
                   stdout, trace, outcomes>>

-----------------------------------------------------------------------------
(* The inbound request: class Contact, lines 25-28, checked by the framework *)
(* before register_contact is entered.                                       *)

Fields == {"name", "email", "phone"}

\* EmailStr: exactly one "@", a non-empty local part, a domain with a period
\* strictly inside it, no whitespace.
IsEmail(e) ==
    LET ats == {i \in DOMAIN e : e[i] = "@"}
    IN  /\ Cardinality(ats) = 1
        /\ \A i \in DOMAIN e : e[i] \notin Whitespace
        /\ LET at == CHOOSE i \in ats : TRUE
           IN  /\ at > 1
               /\ \E d \in (at + 2)..(Len(e) - 1) : e[d] = "."
               /\ e[Len(e)] # "."

\* The body is a function from the keys present to their (string) values.
ContactValid(b) == DOMAIN b = Fields /\ IsEmail(b["email"])

ExampleNames == {<<>>, <<" ">>, <<"a", " ", "b">>}

ExampleEmails == {<<"a", "@", "b", ".", "a">>, <<"a", "b">>, <<"a", "@", "b">>}

ExamplePhones == {<<"5">>}

FullBodies ==
    {[name |-> n, email |-> e, phone |-> p] :
        n \in ExampleNames, e \in ExampleEmails, p \in ExamplePhones}

GoodBody == [name |-> <<"a", " ", "b">>, email |-> <<"a", "@", "b", ".", "a">>, phone |-> <<"5">>]

Bodies == FullBodies \cup {[k \in Fields \ {f} |-> GoodBody[k]] : f \in Fields}

-----------------------------------------------------------------------------
(* What the remote API can answer: requests.post at line 58 *)

None == [t |-> "null"]

JStr(s) == [t |-> "str", s |-> s]

JArray == [t |-> "array"]

JObject(m) == [t |-> "object", m |-> m]

EmptyDict == JObject([k \in {} |-> None])

UserKeys == {"user_id", "live_room_url", "replay_room_url", "thank_you_url"}

\* user objects: every key present, none, or exactly one missing
UserObjects ==
    {JObject([k \in UserKeys |-> JStr(k)]), EmptyDict}
        \cup {JObject([k \in UserKeys \ {x} |-> JStr(k)]) : x \in UserKeys}

UserValues == UserObjects \cup {None, JStr("u1")}

Obj1(k1, v1) == JObject(k1 :> v1)

Obj2(k1, v1, k2, v2) == JObject((k1 :> v1) @@ (k2 :> v2))

JsonValues ==
    {None, JArray, JStr("ok"), EmptyDict}
        \cup {Obj1("status", JStr("success"))}
        \cup {Obj2("status", JStr("success"), "user", u) : u \in UserValues}
        \cup {Obj1("status", JStr("failed")), Obj1("error", JStr("Webinar full"))}
        \cup {Obj2("status", JStr("failed"), "error", JStr("Webinar full"))}

\* response.text: either text that is no JSON document, or the text of a
\* JSON document.
RawText(s) == [t |-> "raw", s |-> s]

JsonText(v) == [t |-> "json", v |-> v]

Texts == {RawText(""), RawText("Service Unavailable")} \cup {JsonText(v) : v \in JsonValues}

ErrorTexts == {RawText("Service Unavailable"), JsonText(Obj1("status", JStr("success")))}

Response(code, text) == [kind |-> "response", status_code |-> code, text |-> text]

\* requests.exceptions.RequestException
TransportError(e) == [kind |-> "error", exc |-> e]

Replies ==
    {Response(200, t) : t \in Texts}
        \cup {Response(c, t) : c \in {201, 503}, t \in ErrorTexts}
        \cup {TransportError(e) : e \in {"ConnectionError", "Timeout"}}

NoReply == [kind |-> "none"]

\* response.json() raises ValueError unless the text is a JSON document
ParsesAsJson(text) == text.t = "json"

JsonOf(text) == text.v

\* only a dict has .get; on None, a list or a str it is an AttributeError
HasGet(v) == v.t = "object"

Get(d, k, default) == IF k \in DOMAIN d.m THEN d.m[k] ELSE default

-----------------------------------------------------------------------------
(* Outcomes delivered to the caller *)

Failure(code, msg, embedded) ==
    [kind |-> "failure", status_code |-> code, detail |-> [msg |-> msg, embeds |-> embedded]]

Success(user) ==
    [kind |-> "success", status_code |-> 200,
     message |-> "Contact successfully registered for the webinar.",
     user_id |-> Get(user, "user_id", None),
     live_room_url |-> Get(user, "live_room_url", None),
     replay_room_url |-> Get(user, "replay_room_url", None),
     thank_you_url |-> Get(user, "thank_you_url", None)]

\* an exception that is neither HTTPException nor caught in the handler
Unhandled(exc) == [kind |-> "exception", exc |-> exc]

\* lines 66-96
MapResponse(response) ==
    IF response.status_code = 200
    THEN IF ~ParsesAsJson(response.text)
         THEN Failure(500, "WebinarJam API returned an invalid response: ", response.text)
         ELSE LET response_json == JsonOf(response.text)
              IN  IF ~HasGet(response_json) THEN Unhandled("AttributeError")
                  ELSE IF Get(response_json, "status", None) = JStr("success")
                  THEN LET user == Get(response_json, "user", EmptyDict)
                       IN  IF ~HasGet(user) THEN Unhandled("AttributeError")
                           ELSE Success(user)
                  ELSE Failure(400, "Failed to register contact. WebinarJam API responded with: ",
                               Get(response_json, "error", JStr("Unknown error")))
    ELSE Failure(response.status_code,
                 "Failed to register contact. WebinarJam API responded with: ",
                 response.text)

-----------------------------------------------------------------------------
(* The server *)

NoPayload == [built |-> FALSE]

Init ==
    /\ env \in [EnvNames -> EnvValues]
    /\ proc = "loading"
    /\ config = NoConfig
    /\ running = 0
    /\ pc = [r \in Reqs |-> "none"]
    /\ body = [r \in Reqs |-> GoodBody]
    /\ payload = [r \in Reqs |-> NoPayload]
    /\ posts = [r \in Reqs |-> 0]
    /\ reply = [r \in Reqs |-> NoReply]
    /\ delay = [r \in Reqs |-> 0]
    /\ stdout = [r \in Reqs |-> <<>>]
    /\ trace = [r \in Reqs |-> <<>>]
    /\ outcomes = [r \in Reqs |-> <<>>]

\* A client sends POST /register; the connection waits in the listen queue
\* until the event loop gets to it.
Arrive(r, b) ==
    /\ proc = "serving"
    /\ pc[r] = "none"
    /\ pc' = [pc EXCEPT ![r] = "sent"]
    /\ body' = [body EXCEPT ![r] = b]
    /\ UNCHANGED <<env, proc, config, running, payload, posts, reply, delay,
                   stdout, trace, outcomes>>

\* the framework enters the handler whatever the email looks like
ValidateFieldsOnly(r) ==
    /\ proc = "serving"
    /\ running = 0
    /\ pc[r] = "sent"
    /\ IF DOMAIN body[r] = Fields
       THEN /\ pc' = [pc EXCEPT ![r] = "ready"]
            /\ running' = r
            /\ UNCHANGED outcomes
       ELSE /\ pc' = [pc EXCEPT ![r] = "done"]
            /\ outcomes' = [outcomes EXCEPT
                              ![r] = Append(@, Failure(422, "validation error", None))]
            /\ UNCHANGED running
    /\ UNCHANGED <<env, proc, config, body, payload, posts, reply, delay, stdout, trace>>

\* Lines 25-31: the event loop reads the request and builds the Contact; an
\* invalid body is answered 422 and register_contact is not entered, a valid
\* one enters it on the loop's thread.
Validate(r) ==
    /\ proc = "serving"
    /\ running = 0
    /\ pc[r] = "sent"
    /\ IF ContactValid(body[r])
       THEN /\ pc' = [pc EXCEPT ![r] = "ready"]
            /\ running' = r
            /\ UNCHANGED outcomes
       ELSE /\ pc' = [pc EXCEPT ![r] = "done"]
            /\ outcomes' = [outcomes EXCEPT
                              ![r] = Append(@, Failure(422, "validation error", None))]
            /\ UNCHANGED running
    /\ UNCHANGED <<env, proc, config, body, payload, posts, reply, delay, stdout, trace>>

\* Lines 36-54: split the name, build the payload.  name_parts[0] raises
\* IndexError, outside the try block, when the name has no token.
Begin(r) ==
    /\ running = r
    /\ pc[r] = "ready"
    /\ LET name_parts == Split(body[r]["name"])
       IN  IF name_parts = <<>>
           THEN /\ pc' = [pc EXCEPT ![r] = "done"]
                /\ outcomes' = [outcomes EXCEPT ![r] = Append(@, Unhandled("IndexError"))]
                /\ trace' = [trace EXCEPT ![r] = Append(@, "raise")]
                /\ running' = 0
                /\ UNCHANGED payload
           ELSE /\ pc' = [pc EXCEPT ![r] = "post"]
                /\ payload' = [payload EXCEPT ![r] =
                      [built |-> TRUE,
                       api_key |-> config.api_key,
                       webinar_id |-> config.webinar_id,
                       schedule |-> config.schedule,
                       first_name |-> name_parts[1],
                       last_name |-> IF Len(name_parts) > 1
                                     THEN JoinSpace(Tail(name_parts)) ELSE <<>>,
                       email |-> body[r]["email"],
                       phone |-> body[r]["phone"]]]
                /\ UNCHANGED <<outcomes, trace, running>>
    /\ UNCHANGED <<env, proc, config, body, posts, reply, delay, stdout>>

\* Line 58, the call: the request goes out and the thread blocks in it.
SendPost(r) ==
    /\ running = r
    /\ pc[r] = "post"
    /\ posts' = [posts EXCEPT ![r] = @ + 1]
    /\ trace' = [trace EXCEPT ![r] = Append(@, "post")]
    /\ pc' = [pc EXCEPT ![r] = "calling"]
    /\ UNCHANGED <<env, proc, config, running, body, payload, reply, delay,
                   stdout, outcomes>>

\* Line 58, the result: requests.post returns a response, and the handler
\* goes on to time.sleep (line 61), or raises a RequestException, and control
\* goes to the except clause (line 97).
Respond(r, rep) ==
    /\ running = r
    /\ pc[r] = "calling"
    /\ reply' = [reply EXCEPT ![r] = rep]
    /\ IF rep.kind = "response"
       THEN /\ pc' = [pc EXCEPT ![r] = "sleeping"]
            /\ trace' = [trace EXCEPT ![r] = Append(@, "response")]
       ELSE /\ pc' = [pc EXCEPT ![r] = "except"]
            /\ trace' = [trace EXCEPT ![r] = Append(@, "error")]
    /\ UNCHANGED <<env, proc, config, running, body, payload, posts, delay,
                   stdout, outcomes>>

\* the pause is taken on the 200 path only
WakeUpOn200Only(r) ==
    /\ running = r
    /\ pc[r] = "sleeping"
    /\ IF reply[r].status_code = 200
       THEN /\ delay' = [delay EXCEPT ![r] = @ + DelaySeconds]
            /\ trace' = [trace EXCEPT ![r] = Append(@, "sleep")]
       ELSE UNCHANGED <<delay, trace>>
    /\ pc' = [pc EXCEPT ![r] = "print"]
    /\ UNCHANGED <<env, proc, config, running, body, payload, posts, reply,
                   stdout, outcomes>>

\* Line 61: time.sleep(2) returns.
WakeUp(r) ==
    /\ running = r
    /\ pc[r] = "sleeping"
    /\ delay' = [delay EXCEPT ![r] = @ + DelaySeconds]
    /\ trace' = [trace EXCEPT ![r] = Append(@, "sleep")]
    /\ pc' = [pc EXCEPT ![r] = "print"]
    /\ UNCHANGED <<env, proc, config, running, body, payload, posts, reply,
                   stdout, outcomes>>

\* the raw text is logged on the 200 path only
LogRawOn200Only(r) ==
    /\ running = r
    /\ pc[r] = "print"
    /\ IF reply[r].status_code = 200
       THEN /\ stdout' = [stdout EXCEPT ![r] = Append(@, reply[r].text)]
            /\ trace' = [trace EXCEPT ![r] = Append(@, "print")]
       ELSE UNCHANGED <<stdout, trace>>
    /\ pc' = [pc EXCEPT ![r] = "map"]
    /\ UNCHANGED <<env, proc, config, running, body, payload, posts, reply,
                   delay, outcomes>>

\* Line 64: print(f"Raw response text: {response.text}")
LogRaw(r) ==
    /\ running = r
    /\ pc[r] = "print"
    /\ stdout' = [stdout EXCEPT ![r] = Append(@, reply[r].text)]
    /\ trace' = [trace EXCEPT ![r] = Append(@, "print")]
    /\ pc' = [pc EXCEPT ![r] = "map"]
    /\ UNCHANGED <<env, proc, config, running, body, payload, posts, reply,
                   delay, outcomes>>

\* Lines 66-96: response.json() is called on the 200 path only; the handler
\* returns or raises, its locals are gone and the thread is released.
Map(r) ==
    /\ running = r
    /\ pc[r] = "map"
    /\ LET out == MapResponse(reply[r])
       IN  /\ outcomes' = [outcomes EXCEPT ![r] = Append(@, out)]
           /\ trace' = [trace EXCEPT ![r] =
                 (IF reply[r].status_code = 200 THEN Append(@, "json") ELSE @)
                     \o <<IF out.kind = "success" THEN "return" ELSE "raise">>]
    /\ pc' = [pc EXCEPT ![r] = "done"]
    /\ payload' = [payload EXCEPT ![r] = NoPayload]
    /\ running' = 0
    /\ UNCHANGED <<env, proc, config, body, posts, reply, delay, stdout>>

\* the request is tried again after a transport failure
ExceptRetry(r) ==
    /\ running = r
    /\ pc[r] = "except"
    /\ pc' = [pc EXCEPT ![r] = "post"]
    /\ UNCHANGED <<env, proc, config, running, body, payload, posts, reply,
                   delay, stdout, trace, outcomes>>

\* Lines 97-102: a RequestException becomes HTTPException(500).
Except(r) ==
    /\ running = r
    /\ pc[r] = "except"
    /\ outcomes' = [outcomes EXCEPT ![r] = Append(@,
          Failure(500, "An error occurred while communicating with the WebinarJam API: ",
                  JStr(reply[r].exc)))]
    /\ trace' = [trace EXCEPT ![r] = Append(@, "raise")]
    /\ pc' = [pc EXCEPT ![r] = "done"]
    /\ payload' = [payload EXCEPT ![r] = NoPayload]
    /\ running' = 0
    /\ UNCHANGED <<env, proc, config, body, posts, reply, delay, stdout>>

Next ==
    \/ Startup
    \/ \E r \in Reqs, b \in Bodies : Arrive(r, b)
    \/ \E r \in Reqs : Validate(r)
    \/ \E r \in Reqs : Begin(r)
    \/ \E r \in Reqs : SendPost(r)
    \/ \E r \in Reqs, rep \in Replies : Respond(r, rep)
    \/ \E r \in Reqs : WakeUp(r)
    \/ \E r \in Reqs : LogRaw(r)
    \/ \E r \in Reqs : Map(r)
    \/ \E r \in Reqs : Except(r)

Spec == Init /\ [][Next]_vars

-----------------------------------------------------------------------------
(* Name splitting on its own: every name up to MaxNameLen characters is     *)
(* handed, already validated, to the handler, which builds the payload and  *)
(* posts it.                                                                *)

Names == SeqsUpTo(Chars, MaxNameLen)

InitSplit ==
    /\ env = [k \in EnvNames |-> "v1"]
    /\ proc = "serving"
    /\ config = [api_key |-> "v1", webinar_id |-> "v1", schedule |-> "v1"]
    /\ running = 1
    /\ pc = [r \in Reqs |-> IF r = 1 THEN "ready" ELSE "none"]
    /\ \E n \in Names : body = [r \in Reqs |-> [GoodBody EXCEPT !["name"] = n]]
    /\ payload = [r \in Reqs |-> NoPayload]
    /\ posts = [r \in Reqs |-> 0]
    /\ reply = [r \in Reqs |-> NoReply]
    /\ delay = [r \in Reqs |-> 0]
    /\ stdout = [r \in Reqs |-> <<>>]
    /\ trace = [r \in Reqs |-> <<>>]
    /\ outcomes = [r \in Reqs |-> <<>>]

NextSplit ==
    \/ \E r \in Reqs : Begin(r)
    \/ \E r \in Reqs : SendPost(r)

SpecSplit == InitSplit /\ [][NextSplit]_vars

-----------------------------------------------------------------------------
(* Properties *)

Done(r) == pc[r] = "done"

Outcome(r) == outcomes[r][1]

IsFailure(out, code) == out.kind = "failure" /\ out.status_code = code

\* the `status` member of a parsed body, None when the body has none
StatusOf(v) == IF v.t = "object" /\ "status" \in DOMAIN v.m THEN v.m["status"] ELSE None

\* the `error` member of a parsed body, or the literal default
ErrorOf(v) ==
    IF v.t = "object" /\ "error" \in DOMAIN v.m THEN v.m["error"] ELSE JStr("Unknown error")

\* member k of the body's nested `user` object, None when it is missing
UserFieldOf(v, k) ==
    IF /\ v.t = "object"
       /\ "user" \in DOMAIN v.m
       /\ v.m["user"].t = "object"
       /\ k \in DOMAIN v.m["user"].m
    THEN v.m["user"].m[k]
    ELSE None

\* C1: every request ends in exactly one outcome, a success record or a
\* failure record, and no unhandled exception leaves register_contact.
C1_ExactlyOneOutcome ==
    \A r \in Reqs :
        /\ Len(outcomes[r]) <= 1
        /\ Done(r) => /\ Len(outcomes[r]) = 1
                      /\ Outcome(r).kind \in {"success", "failure"}

C3_DelayBlocksOnlyOwnRequest ==
    \A a \in Reqs, b \in Reqs :
        a # b /\ pc[a] \in {"calling", "sleeping"} /\ pc[b] = "sent"
            => ENABLED Validate(b)

\* C4: a request whose body lacks a field or whose email is not a valid
\* address is answered 422 and never causes an outbound POST.
C4_ValidationPrecedesCall ==
    \A r \in Reqs :
        pc[r] # "none" /\ ~(DOMAIN body[r] = Fields /\ IsEmail(body[r]["email"]))
            => /\ posts[r] = 0
               /\ pc[r] \in {"sent", "done"}
               /\ Done(r) => outcomes[r] = <<Failure(422, "validation error", None)>>

C4_Witness ==
    \E r \in Reqs :
        /\ Done(r)
        /\ DOMAIN body[r] = Fields
        /\ ~IsEmail(body[r]["email"])
        /\ IsFailure(Outcome(r), 422)
        /\ posts[r] = 0

\* C5: the failure mapping, in order of precedence, for every remote result:
\* transport failure -> 500; status other than 200 -> that status with the raw
\* body; 200 with an unparseable body -> 500 with the raw body; 200 with a
\* parsed body whose status is not "success" -> 400 with the body's error
\* member or "Unknown error".
C5_FailureMapping ==
    \A r \in Reqs :
        Done(r) /\ reply[r].kind # "none" =>
            LET rep == reply[r]
                out == Outcome(r)
            IN  CASE rep.kind = "error" -> IsFailure(out, 500)
                  [] rep.kind = "response" /\ rep.status_code # 200 ->
                        IsFailure(out, rep.status_code) /\ out.detail.embeds = rep.text
                  [] rep.kind = "response" /\ rep.status_code = 200
                        /\ ~ParsesAsJson(rep.text) ->
                        IsFailure(out, 500) /\ out.detail.embeds = rep.text
                  [] rep.kind = "response" /\ rep.status_code = 200
                        /\ ParsesAsJson(rep.text)
                        /\ StatusOf(JsonOf(rep.text)) # JStr("success") ->
                        IsFailure(out, 400) /\ out.detail.embeds = ErrorOf(JsonOf(rep.text))
                  [] OTHER -> TRUE

\* C6: a 200 reply whose parsed body has status "success" yields a success
\* record whose four fields come from the body's `user` object, each None
\* when it is missing there (or when `user` itself is missing).
C6_SuccessMapping ==
    \A r \in Reqs :
        /\ Done(r)
        /\ reply[r].kind = "response"
        /\ reply[r].status_code = 200
        /\ ParsesAsJson(reply[r].text)
        /\ StatusOf(JsonOf(reply[r].text)) = JStr("success")
        => /\ Outcome(r).kind = "success"
           /\ \A k \in UserKeys : Outcome(r)[k] = UserFieldOf(JsonOf(reply[r].text), k)

\* C7: a request causes at most one outbound POST; no failure is retried.
C7_AtMostOnePost ==
    \A r \in Reqs : posts[r] <= 1

C7_Witness ==
    \E r \in Reqs :
        /\ Done(r)
        /\ reply[r].kind = "error"
        /\ Outcome(r).kind = "failure"
        /\ posts[r] = 1

\* C8: the process serves only with all three configuration values present;
\* with any of them missing startup fails and no request is ever handled, and
\* the values in use stay those read from the environment at startup.
C8_ConfigPresentWhileServing ==
    /\ proc # "loading" /\ (\E k \in EnvNames : env[k] \in {Unset, ""}) => proc = "crashed"
    /\ (\E r \in Reqs : pc[r] # "none") =>
          /\ proc = "serving"
          /\ config.api_key = env["WEBINARJAM_API_KEY"]
          /\ config.webinar_id = env["WEBINARJAM_WEBINAR_ID"]
          /\ config.schedule = env["WEBINARJAM_WEBINAR_SCHEDULE_ID"]
          /\ \A k \in EnvNames : env[k] \notin {Unset, ""}

C8_Witness ==
    \E r \in Reqs : Done(r) /\ Outcome(r).kind = "success" /\ proc = "serving"

\* C9 as stated: every request that attempted the remote call has logged a
\* raw response text, whatever its outcome.
C9_LoggedRegardless ==
    \A r \in Reqs : Done(r) /\ posts[r] > 0 => stdout[r] # <<>>

\* C9 amended: when requests.post returned a response (any status, any body)
\* its raw text is logged, and logged before response.json() is called; when
\* requests.post raised there is no response and nothing is logged.
C9_LoggedBeforeParsing ==
    \A r \in Reqs :
        /\ reply[r].kind = "response" /\ pc[r] \in {"map", "done"}
              => stdout[r] = <<reply[r].text>>
        /\ \A i \in DOMAIN trace[r] :
              trace[r][i] = "json" => \E j \in 1..(i - 1) : trace[r][j] = "print"
        /\ reply[r].kind = "error" => stdout[r] = <<>>

C9_Witness ==
    \E r \in Reqs :
        /\ Done(r)
        /\ reply[r].kind = "response"
        /\ reply[r].status_code = 503
        /\ stdout[r] = <<reply[r].text>>

\* A name with its leading and trailing whitespace removed and every run of
\* whitespace inside it replaced by one space.
RECURSIVE CollapseFrom(_, _)
CollapseFrom(s, i) ==
    IF i > Len(s) THEN <<>>
    ELSE IF s[i] \notin Whitespace THEN <<s[i]>> \o CollapseFrom(s, i + 1)
    ELSE IF i = 1 \/ s[i - 1] \in Whitespace
            \/ \A j \in i..Len(s) : s[j] \in Whitespace
         THEN CollapseFrom(s, i + 1)
    ELSE <<" ">> \o CollapseFrom(s, i + 1)

Collapse(s) == CollapseFrom(s, 1)

\* C10: for a name of one or more tokens, first_name is the first token and
\* last_name the remaining tokens in order joined by single spaces (empty when
\* there is one token): first_name is non-empty and free of whitespace,
\* last_name has no whitespace but single spaces between tokens, and the two
\* spell the collapsed name.
C10_NameSplit ==
    \A r \in Reqs :
        payload[r].built =>
            LET first == payload[r].first_name
                last == payload[r].last_name
            IN  /\ first # <<>>
                /\ \A i \in DOMAIN first : first[i] \notin Whitespace
                /\ last = Collapse(last)
                /\ Collapse(body[r]["name"]) =
                      IF last = <<>> THEN first ELSE first \o <<" ">> \o last

C10_Witness ==
    \E r \in Reqs :
        /\ pc[r] = "calling"
        /\ body[r]["name"] = <<"a", " ", "\t", "b", " ", "a">>
        /\ payload[r].first_name = <<"a">>
        /\ payload[r].last_name = <<"b", " ", "a">>

=============================================================================
